---------------------------- MODULE Spec2Model ----------------------------
(***************************************************************************)
(* A model of epc.py: the conversion of the certificates.csv and           *)
(* recommendations.csv members of an EPC zip archive into numbered parquet *)
(* parts (open_files, csv_to_parquet, convert_files and the main block).   *)
(*                                                                         *)
(* Text is modelled at the granularity the program distinguishes: a member *)
(* filename and a glob pattern are sequences of path atoms ("*" and "?"    *)
(* are the wildcards of fnmatch), a cell of a CSV file is its text, and a  *)
(* converted value is the canonical text of the typed value.               *)
(***************************************************************************)
EXTENDS Integers, Sequences, FiniteSets, TLC

(* ------------------------------ bounds -------------------------------- *)

\* longest member listing of an archive
MaxMembers == 2
\* number of times the program is run against the same output root
MaxRuns == 2
\* most data rows of a CSV file handed to csv_to_parquet on its own
MaxRows == 2

(* ------------------------- the schema catalog ------------------------- *)

CERTIFICATE_SCHEMA ==
       "LMK_KEY" :> "string"
    @@ "ADDRESS1" :> "string"
    @@ "ADDRESS2" :> "string"
    @@ "ADDRESS3" :> "string"
    @@ "POSTCODE" :> "string"
    @@ "BUILDING_REFERENCE_NUMBER" :> "int64"
    @@ "CURRENT_ENERGY_RATING" :> "string"
    @@ "POTENTIAL_ENERGY_RATING" :> "string"
    @@ "CURRENT_ENERGY_EFFICIENCY" :> "int64"
    @@ "POTENTIAL_ENERGY_EFFICIENCY" :> "int64"
    @@ "PROPERTY_TYPE" :> "string"
    @@ "BUILT_FORM" :> "string"
    @@ "INSPECTION_DATE" :> "date32"
    @@ "LOCAL_AUTHORITY" :> "string"
    @@ "CONSTITUENCY" :> "string"
    @@ "COUNTY" :> "string"
    @@ "LODGEMENT_DATE" :> "date32"
    @@ "TRANSACTION_TYPE" :> "string"
    @@ "ENVIRONMENT_IMPACT_CURRENT" :> "float64"
    @@ "ENVIRONMENT_IMPACT_POTENTIAL" :> "float64"
    @@ "ENERGY_CONSUMPTION_CURRENT" :> "float64"
    @@ "ENERGY_CONSUMPTION_POTENTIAL" :> "float64"
    @@ "CO2_EMISSIONS_CURRENT" :> "float64"
    @@ "CO2_EMISS_CURR_PER_FLOOR_AREA" :> "float64"
    @@ "CO2_EMISSIONS_POTENTIAL" :> "float64"
    @@ "LIGHTING_COST_CURRENT" :> "float64"
    @@ "LIGHTING_COST_POTENTIAL" :> "float64"
    @@ "HEATING_COST_CURRENT" :> "float64"
    @@ "HEATING_COST_POTENTIAL" :> "float64"
    @@ "HOT_WATER_COST_CURRENT" :> "float64"
    @@ "HOT_WATER_COST_POTENTIAL" :> "float64"
    @@ "TOTAL_FLOOR_AREA" :> "float64"
    @@ "ENERGY_TARIFF" :> "string"
    @@ "MAINS_GAS_FLAG" :> "string"
    @@ "FLOOR_LEVEL" :> "string"
    @@ "FLAT_TOP_STOREY" :> "string"
    @@ "FLAT_STOREY_COUNT" :> "int64"
    @@ "MAIN_HEATING_CONTROLS" :> "string"
    @@ "MULTI_GLAZE_PROPORTION" :> "float64"
    @@ "GLAZED_TYPE" :> "string"
    @@ "GLAZED_AREA" :> "string"
    @@ "EXTENSION_COUNT" :> "float64"
    @@ "NUMBER_HABITABLE_ROOMS" :> "float64"
    @@ "NUMBER_HEATED_ROOMS" :> "float64"
    @@ "LOW_ENERGY_LIGHTING" :> "int64"
    @@ "NUMBER_OPEN_FIREPLACES" :> "int64"
    @@ "HOTWATER_DESCRIPTION" :> "string"
    @@ "HOT_WATER_ENERGY_EFF" :> "string"
    @@ "HOT_WATER_ENV_EFF" :> "string"
    @@ "FLOOR_DESCRIPTION" :> "string"
    @@ "FLOOR_ENERGY_EFF" :> "string"
    @@ "FLOOR_ENV_EFF" :> "string"
    @@ "WINDOWS_DESCRIPTION" :> "string"
    @@ "WINDOWS_ENERGY_EFF" :> "string"
    @@ "WINDOWS_ENV_EFF" :> "string"
    @@ "WALLS_DESCRIPTION" :> "string"
    @@ "WALLS_ENERGY_EFF" :> "string"
    @@ "WALLS_ENV_EFF" :> "string"
    @@ "SECONDHEAT_DESCRIPTION" :> "string"
    @@ "SHEATING_ENERGY_EFF" :> "string"
    @@ "SHEATING_ENV_EFF" :> "string"
    @@ "ROOF_DESCRIPTION" :> "string"
    @@ "ROOF_ENERGY_EFF" :> "string"
    @@ "ROOF_ENV_EFF" :> "string"
    @@ "MAINHEAT_DESCRIPTION" :> "string"
    @@ "MAINHEAT_ENERGY_EFF" :> "string"
    @@ "MAINHEAT_ENV_EFF" :> "string"
    @@ "MAINHEATCONT_DESCRIPTION" :> "string"
    @@ "MAINHEATC_ENERGY_EFF" :> "string"
    @@ "MAINHEATC_ENV_EFF" :> "string"
    @@ "LIGHTING_DESCRIPTION" :> "string"
    @@ "LIGHTING_ENERGY_EFF" :> "string"
    @@ "LIGHTING_ENV_EFF" :> "string"
    @@ "MAIN_FUEL" :> "string"
    @@ "WIND_TURBINE_COUNT" :> "float64"
    @@ "HEAT_LOSS_CORRIDOR" :> "string"
    @@ "UNHEATED_CORRIDOR_LENGTH" :> "float64"
    @@ "FLOOR_HEIGHT" :> "float64"
    @@ "PHOTO_SUPPLY" :> "float64"
    @@ "SOLAR_WATER_HEATING_FLAG" :> "string"
    @@ "MECHANICAL_VENTILATION" :> "string"
    @@ "ADDRESS" :> "string"
    @@ "LOCAL_AUTHORITY_LABEL" :> "string"
    @@ "CONSTITUENCY_LABEL" :> "string"
    @@ "POSTTOWN" :> "string"
    @@ "CONSTRUCTION_AGE_BAND" :> "string"
    @@ "LODGEMENT_DATETIME" :> "timestamp[s]"
    @@ "TENURE" :> "string"
    @@ "FIXED_LIGHTING_OUTLETS_COUNT" :> "float64"
    @@ "LOW_ENERGY_FIXED_LIGHT_COUNT" :> "float64"
    @@ "UPRN" :> "int64"
    @@ "UPRN_SOURCE" :> "string"

RECOMMENDATIONS_SCHEMA ==
       "LMK_KEY" :> "string"
    @@ "IMPROVEMENT_ITEM" :> "int64"
    @@ "IMPROVEMENT_SUMMARY_TEXT" :> "string"
    @@ "IMPROVEMENT_DESCR_TEXT" :> "string"
    @@ "IMPROVEMENT_ID" :> "int64"
    @@ "IMPROVEMENT_ID_TEXT" :> "string"
    @@ "INDICATIVE_COST" :> "string"

EmptyDict == [c \in {} |-> "string"]

\* an absent argument (Python's None) is the empty set, a given one {value}
None == {}

Some(v) == {v}

(* --------------------------- pyarrow.csv ------------------------------ *)

IntTexts == {"31", "000123"}

FloatTexts == IntTexts \cup {"1.0"}

DateTexts == {"2021-03-04"}

TimestampTexts == DateTexts \cup {"2021-03-04 10:11:12"}

\* the values of a column can all be read as the type
CanCast(v, type) ==
    CASE type = "string" -> TRUE
      [] type = "int64" -> v \in IntTexts
      [] type = "int8" -> v \in IntTexts
      [] type = "float64" -> v \in FloatTexts
      [] type = "date32" -> v \in DateTexts
      [] type = "timestamp[s]" -> v \in TimestampTexts
      [] OTHER -> FALSE

IntValue(v) == IF v = "000123" THEN "123" ELSE v

\* the typed value, as its canonical text
Cast(v, type) ==
    CASE type \in {"int64", "int8"} -> IntValue(v)
      [] type = "float64" -> IF v \in IntTexts THEN IntValue(v) \o ".0" ELSE v
      [] type = "timestamp[s]" -> IF v \in DateTexts THEN v \o " 00:00:00" ELSE v
      [] OTHER -> v

\* the type inferred for a column that has no declared type
InferType(values) ==
    LET all(S) == \A i \in DOMAIN values : values[i] \in S
    IN  CASE Len(values) = 0 -> "null"
          [] all(IntTexts) -> "int64"
          [] all(DateTexts) -> "date32"
          [] all(TimestampTexts) -> "timestamp[s]"
          [] all(FloatTexts) -> "float64"
          [] OTHER -> "string"

\* a CSV file: the header row and the data rows, each a sequence of texts
NoTable == [ok |-> FALSE, names |-> <<>>, types |-> <<>>, columns |-> <<>>, num_rows |-> 0]

\* the values of column i, in row order
ColumnTexts(csv, i) == [r \in 1..Len(csv.rows) |-> csv.rows[r][i]]

\* ConvertOptions(column_types=...): a declared type wins over inference
ColumnType(column_types, name, values) ==
    IF name \in DOMAIN column_types THEN column_types[name] ELSE InferType(values)

\* pyarrow.csv.read_csv: the typed table, or NoTable when the read raises
\* (a row of the wrong width, a value its declared type cannot read)
ReadCsv(csv, column_types) ==
    LET n == Len(csv.header)
        type(i) == ColumnType(column_types, csv.header[i], ColumnTexts(csv, i))
        ragged == \E r \in DOMAIN csv.rows : Len(csv.rows[r]) # n
    IN  IF ragged THEN NoTable
        ELSE IF \E i \in 1..n : \E r \in DOMAIN csv.rows : ~CanCast(csv.rows[r][i], type(i))
        THEN NoTable
        ELSE [ok |-> TRUE,
              names |-> csv.header,
              types |-> [i \in 1..n |-> type(i)],
              columns |-> [i \in 1..n |->
                             [r \in 1..Len(csv.rows) |-> Cast(csv.rows[r][i], type(i))]],
              num_rows |-> Len(csv.rows)]

\* `column_types or {}`
ColumnTypesIgnored(column_types) == EmptyDict

ColumnTypesOrEmpty(column_types) ==
    IF column_types = None THEN EmptyDict ELSE CHOOSE d \in column_types : TRUE

\* pyarrow.parquet.write_table: the file holds the schema and the column chunks
ParquetBytes(table) ==
    [magic |-> "PAR1",
     schema |-> [i \in DOMAIN table.names |-> <<table.names[i], table.types[i]>>],
     row_group |-> table.columns,
     num_rows |-> table.num_rows]

\* pyarrow.parquet.read_table
ReadTable(bytes) ==
    [ok |-> TRUE,
     names |-> [i \in DOMAIN bytes.schema |-> bytes.schema[i][1]],
     types |-> [i \in DOMAIN bytes.schema |-> bytes.schema[i][2]],
     columns |-> bytes.row_group,
     num_rows |-> bytes.num_rows]

(* ------------------------------ fnmatch ------------------------------- *)

RECURSIVE FnMatch(_, _)
\* fnmatch.fnmatch(name, pat): "*" matches any run of atoms, "/" included,
\* "?" exactly one, anything else itself
FnMatch(name, pat) ==
    IF pat = <<>> THEN name = <<>>
    ELSE IF Head(pat) = "*"
    THEN FnMatch(name, Tail(pat)) \/ (name # <<>> /\ FnMatch(Tail(name), pat))
    ELSE /\ name # <<>>
         /\ Head(pat) = "?" \/ Head(pat) = Head(name)
         /\ FnMatch(Tail(name), Tail(pat))

RECURSIVE MatchingFrom(_, _, _)
\* the positions i..Len(members) whose filename matches, in listing order
MatchingFrom(members, pattern, i) ==
    IF i > Len(members) THEN <<>>
    ELSE (IF FnMatch(members[i].filename, pattern) THEN <<i>> ELSE <<>>)
         \o MatchingFrom(members, pattern, i + 1)

\* the list comprehension over zip_file.infolist()
MatchingFiles(members, pattern) == MatchingFrom(members, pattern, 1)

\* zip_file.open(name): the LAST member of that name
ZipOpenByName(members, i) ==
    LET last == CHOOSE j \in DOMAIN members :
                  /\ members[j].filename = members[i].filename
                  /\ \A k \in DOMAIN members :
                       members[k].filename = members[i].filename => k <= j
    IN  members[last].bytes

\* zip_file.open(ZipInfo): the bytes of that very member
ZipOpen(members, i) == members[i].bytes

(* ------------------------------- paths -------------------------------- *)

Digit == <<"0", "1", "2", "3", "4", "5", "6", "7", "8", "9">>

RECURSIVE DecimalText(_)
DecimalText(n) ==
    IF n < 10 THEN Digit[n + 1] ELSE DecimalText(n \div 10) \o Digit[(n % 10) + 1]

\* the format spec `:03`: zero-padded to at least three digits
Format03(n) ==
    LET d == DecimalText(n)
    IN  IF Len(d) >= 3 THEN d ELSE IF Len(d) = 2 THEN "0" \o d ELSE "00" \o d

\* f"part-{part_number:03}.parquet"
PartName(part_number) == "part-" \o Format03(part_number) \o ".parquet"

\* os.path.join(a, b), a path being the sequence of its components
PathJoin(path, name) == Append(path, name)

\* os.makedirs(path, exist_ok=True): the directory and every missing parent
MakeDirs(existing, path) == existing \cup {SubSeq(path, 1, k) : k \in 1..Len(path)}

\* args.output_path
OutputRoot == <<"out">>

\* the two calls of convert_files in the main block, in order
Datasets ==
    << [file_pattern |-> <<"*", "/", "certificates.csv">>,
        schema |-> CERTIFICATE_SCHEMA,
        output_path |-> PathJoin(OutputRoot, "certificates")],
       [file_pattern |-> <<"*", "/", "recommendations.csv">>,
        schema |-> RECOMMENDATIONS_SCHEMA,
        output_path |-> PathJoin(OutputRoot, "recommendations")] >>

(* ------------------------------ inputs -------------------------------- *)

\* certificates whose columns all read under CERTIFICATE_SCHEMA
Certificates1 ==
    [header |-> <<"LMK_KEY", "MULTI_GLAZE_PROPORTION", "NOTE">>,
     rows |-> << <<"000123", "1.0", "31">>, <<"31", "31", "1.0">> >>]

Certificates2 ==
    [header |-> <<"LMK_KEY", "INSPECTION_DATE">>,
     rows |-> << <<"abc", "2021-03-04">> >>]

\* BUILDING_REFERENCE_NUMBER is declared int64 and holds "1.0"
CertificatesBad ==
    [header |-> <<"LMK_KEY", "BUILDING_REFERENCE_NUMBER">>,
     rows |-> << <<"31", "31">>, <<"31", "1.0">> >>]

Recommendations1 ==
    [header |-> <<"LMK_KEY", "IMPROVEMENT_ITEM", "INDICATIVE_COST">>,
     rows |-> << <<"000123", "31", "abc">> >>]

\* the members an archive is listed from; two share a filename (a zip
\* archive may hold a name twice) and one lies outside any directory
MemberPool ==
    { [filename |-> <<"authority-1", "/", "certificates.csv">>, bytes |-> Certificates1],
      [filename |-> <<"authority-1", "/", "certificates.csv">>, bytes |-> Certificates2],
      [filename |-> <<"authority-2", "/", "certificates.csv">>, bytes |-> CertificatesBad],
      [filename |-> <<"authority-1", "/", "recommendations.csv">>, bytes |-> Recommendations1],
      [filename |-> <<"certificates.csv">>, bytes |-> Certificates2] }

Listings == UNION {[1..n -> MemberPool] : n \in 0..MaxMembers}

\* a valid zip container with its listing, or a file that is none
Archives ==
    {[valid |-> TRUE, members |-> l] : l \in Listings}
        \cup {[valid |-> FALSE, members |-> <<>>]}

(* ------------------------------- state -------------------------------- *)

VARIABLES
    archive,        \* args.epc_zipfile: the file at that path
    run,            \* which run of the program this is
    pc,             \* where the run stands
    ds,             \* the call of convert_files in progress (index of Datasets)
    gen_state,      \* the generator of open_files: created, running, closed
    zip_open,       \* the ZipFile of the generator is open
    matching_files, \* the generator's matching_files (positions in the listing)
    yielded,        \* the streams the generator has yielded so far
    streams,        \* streams yielded and not yet converted
    part_number,    \* enumerate's counter
    table,          \* the table read by csv_to_parquet, before it is written
    files,          \* the regular files under the output root: path -> bytes
    dirs,           \* the directories that exist
    stdout,         \* the lines printed by this run
    written,        \* history: the parts written by this run
    attempts,       \* history: the members csv_to_parquet was called on
    zip_opens,      \* history: times the current generator opened the archive
    listings,       \* history: times the current generator listed the archive
    raised,         \* history: what raised in this run, if anything
    files0,         \* history: files when this run started
    dirs0,          \* history: dirs when this run started
    rerun,          \* history: this run has the archive of the run before
    csv_file,       \* csv_to_parquet on its own: the CSV file
    column_types,   \* ... its column_types argument
    parquet_file,   \* ... the file it wrote
    cpc             \* ... where that call stands

pipeline_vars ==
    <<archive, run, pc, ds, gen_state, zip_open, matching_files, yielded, streams,
      part_number, table, files, dirs, stdout, written, attempts, zip_opens,
      listings, raised, files0, dirs0, rerun>>

csv_vars == <<csv_file, column_types, parquet_file, cpc>>

vars == <<pipeline_vars, csv_vars>>

(* ----------------------------- open_files ----------------------------- *)

\* zipfile.ZipFile(epc_zipfile, "r") returns; it raises on a missing file
\* and on a file that is no zip container
ZipFileOpensAnything(a) == TRUE

ZipFileOpens(a) == a.valid

\* the for loop that yields is inside the with block: the archive stays
\* open while the generator is suspended at a yield
ClosedBeforeYielding == FALSE

OpenWhileYielding == TRUE

\* one resumption opens every remaining member
YieldAllRemaining(matching, count) == SubSeq(matching, count + 1, Len(matching))

\* one resumption of the generator runs to the next yield: one member
YieldBatch(matching, count) == <<matching[count + 1]>>

\* the stream of zip_file.open(matching_file)
Stream(i) ==
    [member |-> i, bytes |-> ZipOpen(archive.members, i), archive_open |-> zip_open]

(* ---------------------------- convert_files --------------------------- *)

\* the next free index of the directory: appending instead of numbering
ParquetFilePathAppending(output_path, n) ==
    PathJoin(output_path,
             PartName(n + Cardinality({p \in DOMAIN files0 :
                                         SubSeq(p, 1, Len(p) - 1) = output_path})))

ParquetFilePath(output_path, n) == PathJoin(output_path, PartName(n))

NextPartNumberStuck(n) == n

\* enumerate(files)
NextPartNumber(n) == n + 1

\* the directory emptied before it is filled
FilesAfterMakedirsCleared(fs, output_path) ==
    [p \in {q \in DOMAIN fs : SubSeq(q, 1, Len(q) - 1) # output_path} |-> fs[p]]

\* os.makedirs leaves the files of an existing directory alone
FilesAfterMakedirs(fs, output_path) == fs

\* the bad shard skipped, the loop going on
AfterConvertErrorSkip == "next"

\* no try/except anywhere: an exception of csv_to_parquet ends the process
AfterConvertError == "failed"

\* the line printed for a part
ProgressLineOfDirectory(parquet_file_path) ==
    <<"Written", SubSeq(parquet_file_path, 1, Len(parquet_file_path) - 1)>>

ProgressLine(parquet_file_path) == <<"Written", parquet_file_path>>

WriteFile(fs, path, bytes) ==
    [p \in DOMAIN fs \cup {path} |-> IF p = path THEN bytes ELSE fs[p]]

NoFiles == [p \in {} |-> NoTable]

StartRun(a, fs, d, r, same) ==
    /\ archive' = a
    /\ run' = r
    /\ pc' = "makedirs"
    /\ ds' = 1
    /\ gen_state' = "none"
    /\ zip_open' = FALSE
    /\ matching_files' = <<>>
    /\ yielded' = <<>>
    /\ streams' = <<>>
    /\ part_number' = 0
    /\ table' = None
    /\ files' = fs
    /\ dirs' = d
    /\ stdout' = <<>>
    /\ written' = <<>>
    /\ attempts' = <<>>
    /\ zip_opens' = 0
    /\ listings' = 0
    /\ raised' = "nothing"
    /\ files0' = fs
    /\ dirs0' = d
    /\ rerun' = same

CsvIdle ==
    /\ csv_file = [header |-> <<>>, rows |-> <<>>]
    /\ column_types = None
    /\ parquet_file = None
    /\ cpc = "idle"

\* a first run on an empty output root
Init ==
    /\ \E a \in Archives :
         /\ archive = a
         /\ run = 1
         /\ pc = "makedirs"
         /\ ds = 1
         /\ gen_state = "none"
         /\ zip_open = FALSE
         /\ matching_files = <<>>
         /\ yielded = <<>>
         /\ streams = <<>>
         /\ part_number = 0
         /\ table = None
         /\ files = NoFiles
         /\ dirs = {}
         /\ stdout = <<>>
         /\ written = <<>>
         /\ attempts = <<>>
         /\ zip_opens = 0
         /\ listings = 0
         /\ raised = "nothing"
         /\ files0 = NoFiles
         /\ dirs0 = {}
         /\ rerun = FALSE
    /\ CsvIdle

\* convert_files up to the for loop: the generator object is made (none of
\* its body runs yet) and the output directory is ensured
CallConvertFiles ==
    /\ pc = "makedirs"
    /\ gen_state' = "created"
    /\ zip_open' = FALSE
    /\ matching_files' = <<>>
    /\ yielded' = <<>>
    /\ streams' = <<>>
    /\ zip_opens' = 0
    /\ listings' = 0
    /\ attempts' = <<>>
    /\ part_number' = 0
    /\ dirs' = MakeDirs(dirs, Datasets[ds].output_path)
    /\ files' = FilesAfterMakedirs(files, Datasets[ds].output_path)
    /\ pc' = "next"
    /\ UNCHANGED <<archive, run, ds, table, stdout, written, raised, files0, dirs0,
                   rerun, csv_vars>>

\* the first next(): the with statement and the list comprehension
GenStart ==
    /\ pc = "next"
    /\ gen_state = "created"
    /\ IF ZipFileOpens(archive)
       THEN /\ zip_open' = OpenWhileYielding
            /\ zip_opens' = zip_opens + 1
            /\ matching_files' = MatchingFiles(archive.members, Datasets[ds].file_pattern)
            /\ listings' = listings + 1
            /\ gen_state' = "running"
            /\ UNCHANGED <<pc, raised>>
       ELSE /\ gen_state' = "closed"
            /\ pc' = "failed"
            /\ raised' = "open"
            /\ UNCHANGED <<zip_open, zip_opens, matching_files, listings>>
    /\ UNCHANGED <<archive, run, ds, yielded, streams, part_number, table, files, dirs,
                   stdout, written, attempts, files0, dirs0, rerun, csv_vars>>

\* the generator runs to its next yield
GenYield ==
    /\ pc = "next"
    /\ gen_state = "running"
    /\ Len(yielded) < Len(matching_files)
    /\ LET batch == YieldBatch(matching_files, Len(yielded))
           opened == [k \in DOMAIN batch |-> Stream(batch[k])]
       IN  /\ yielded' = yielded \o opened
           /\ streams' = opened
    /\ pc' = "read"
    /\ UNCHANGED <<archive, run, ds, gen_state, zip_open, matching_files, part_number,
                   table, files, dirs, stdout, written, attempts, zip_opens, listings,
                   raised, files0, dirs0, rerun, csv_vars>>

\* the loop of the generator ends: the with block closes the archive and
\* the for loop of convert_files ends
GenExhausted ==
    /\ pc = "next"
    /\ gen_state = "running"
    /\ Len(yielded) >= Len(matching_files)
    /\ zip_open' = FALSE
    /\ gen_state' = "closed"
    /\ pc' = "returned"
    /\ UNCHANGED <<archive, run, ds, matching_files, yielded, streams, part_number,
                   table, files, dirs, stdout, written, attempts, zip_opens, listings,
                   raised, files0, dirs0, rerun, csv_vars>>

\* the main block after a call of convert_files: the next call, or the end
MainContinue ==
    /\ pc = "returned"
    /\ IF ds < Len(Datasets)
       THEN ds' = ds + 1 /\ pc' = "makedirs"
       ELSE ds' = ds /\ pc' = "done"
    /\ gen_state' = "none"
    /\ matching_files' = <<>>
    /\ yielded' = <<>>
    /\ UNCHANGED <<archive, run, zip_open, streams, part_number, table, files, dirs,
                   stdout, written, attempts, zip_opens, listings, raised, files0,
                   dirs0, rerun, csv_vars>>

(* --------------------------- csv_to_parquet --------------------------- *)

\* pyarrow.csv.read_csv on the stream at hand; an exception leaves
\* convert_files and the main block, and the process ends (which closes
\* the suspended generator and with it the archive). A write that raises
\* and a member whose bytes cannot be read are not modelled.
ReadStream ==
    /\ pc = "read"
    /\ LET file == Head(streams)
           t == ReadCsv(file.bytes, ColumnTypesOrEmpty(Some(Datasets[ds].schema)))
       IN  /\ attempts' = Append(attempts, file.member)
           /\ IF t.ok
              THEN /\ table' = Some(t)
                   /\ pc' = "write"
                   /\ UNCHANGED <<streams, raised, zip_open, gen_state>>
              ELSE /\ table' = None
                   /\ streams' = Tail(streams)
                   /\ raised' = "convert"
                   /\ pc' = AfterConvertError
                   /\ zip_open' = (zip_open /\ pc' # "failed")
                   /\ gen_state' = IF pc' = "failed" THEN "closed" ELSE gen_state
    /\ UNCHANGED <<archive, run, ds, matching_files, yielded, part_number, files, dirs,
                   stdout, written, zip_opens, listings, files0, dirs0, rerun,
                   csv_vars>>

\* pyarrow.parquet.write_table to the part's path
WritePart ==
    /\ pc = "write"
    /\ LET parquet_file_path == ParquetFilePath(Datasets[ds].output_path, part_number)
           t == CHOOSE x \in table : TRUE
       IN  /\ files' = WriteFile(files, parquet_file_path, ParquetBytes(t))
           /\ written' = Append(written, [ds |-> ds,
                                          part_number |-> part_number,
                                          path |-> parquet_file_path,
                                          member |-> Head(streams).member])
    /\ table' = None
    /\ streams' = Tail(streams)
    /\ pc' = "print"
    /\ UNCHANGED <<archive, run, ds, gen_state, zip_open, matching_files, yielded,
                   part_number, dirs, stdout, attempts, zip_opens, listings, raised,
                   files0, dirs0, rerun, csv_vars>>

\* print(f"Written {parquet_file_path}"), and enumerate moves on
PrintWritten ==
    /\ pc = "print"
    /\ stdout' = Append(stdout,
                        ProgressLine(ParquetFilePath(Datasets[ds].output_path, part_number)))
    /\ part_number' = NextPartNumber(part_number)
    /\ pc' = "next"
    /\ UNCHANGED <<archive, run, ds, gen_state, zip_open, matching_files, yielded,
                   streams, table, files, dirs, written, attempts, zip_opens, listings,
                   raised, files0, dirs0, rerun, csv_vars>>

(* ------------------------------ the runs ------------------------------ *)

\* the program is run again on the same output root, on any archive
NewRun ==
    /\ pc \in {"done", "failed"}
    /\ run < MaxRuns
    /\ \E a \in Archives : StartRun(a, files, dirs, run + 1, a = archive)
    /\ UNCHANGED csv_vars

Next ==
    \/ CallConvertFiles
    \/ GenStart
    \/ GenYield
    \/ GenExhausted
    \/ MainContinue
    \/ ReadStream
    \/ WritePart
    \/ PrintWritten
    \/ NewRun

Spec == Init /\ [][Next]_vars

(* ----------------------- csv_to_parquet on its own --------------------- *)

ColumnNames == {"LMK_KEY", "UPRN", "NOTE"}

CellTexts == {"31", "000123", "1.0", "abc"}

Headers == {<<a>> : a \in ColumnNames}
               \cup {h \in ColumnNames \X ColumnNames : h[1] # h[2]}

CsvFiles ==
    UNION {{[header |-> h, rows |-> r] :
              r \in UNION {[1..n -> [1..Len(h) -> CellTexts]] : n \in 0..MaxRows}} :
           h \in Headers}

\* the column_types a caller passes: none, empty, the schema of the test
\* (an int8), one with a column the file may lack, the certificates' schema
ColumnTypeArguments ==
    { None,
      Some(EmptyDict),
      Some("LMK_KEY" :> "string" @@ "UPRN" :> "int8"),
      Some("NOTE" :> "float64" @@ "TENURE" :> "int64"),
      Some(CERTIFICATE_SCHEMA) }

InitCsv ==
    /\ archive = [valid |-> FALSE, members |-> <<>>]
    /\ run = 1
    /\ pc = "makedirs"
    /\ ds = 1
    /\ gen_state = "none"
    /\ zip_open = FALSE
    /\ matching_files = <<>>
    /\ yielded = <<>>
    /\ streams = <<>>
    /\ part_number = 0
    /\ table = None
    /\ files = NoFiles
    /\ dirs = {}
    /\ stdout = <<>>
    /\ written = <<>>
    /\ attempts = <<>>
    /\ zip_opens = 0
    /\ listings = 0
    /\ raised = "nothing"
    /\ files0 = NoFiles
    /\ dirs0 = {}
    /\ rerun = FALSE
    /\ csv_file \in CsvFiles
    /\ column_types \in ColumnTypeArguments
    /\ parquet_file = None
    /\ cpc = "call"

\* csv_to_parquet(csv_file, parquet_file, column_types): the table is read
\* and written, or the read raises and nothing is written
CsvToParquet ==
    /\ cpc = "call"
    /\ LET t == ReadCsv(csv_file, ColumnTypesOrEmpty(column_types))
       IN  IF t.ok
           THEN parquet_file' = Some(ParquetBytes(t)) /\ cpc' = "returned"
           ELSE parquet_file' = None /\ cpc' = "raised"
    /\ UNCHANGED <<csv_file, column_types, pipeline_vars>>

NextCsv == CsvToParquet

SpecCsv == InitCsv /\ [][NextCsv]_vars

(* ------------------------------ properties --------------------------- *)

\* the file name the pattern of convert_files call d ends in
DatasetFile(d) == IF d = 1 THEN "certificates.csv" ELSE "recommendations.csv"

\* member i lies in a directory and is named as the pattern of call d asks
Matches(i, d) ==
    LET f == archive.members[i].filename
    IN  Len(f) >= 2 /\ f[Len(f)] = DatasetFile(d) /\ f[Len(f) - 1] = "/"

\* how many matching members precede member i in the listing
Rank(i, d) == Cardinality({j \in 1..(i - 1) : Matches(j, d)})

NumMatching(d) == Cardinality({i \in DOMAIN archive.members : Matches(i, d)})

PartNames ==
    <<"part-000.parquet", "part-001.parquet", "part-002.parquet", "part-003.parquet",
      "part-004.parquet", "part-005.parquet">>

\* the path of part k of call d, written out
ExpectedPath(d, k) ==
    <<"out", IF d = 1 THEN "certificates" ELSE "recommendations", PartNames[k + 1]>>

ExpectedPaths(d) == {ExpectedPath(d, k) : k \in 0..(NumMatching(d) - 1)}

\* the parquet file member i converts to under the schema of call d
Converted(i, d) == ParquetBytes(ReadCsv(archive.members[i].bytes, Datasets[d].schema))

WrittenBy(d) == {k \in DOMAIN written : written[k].ds = d}

WrittenPaths == {written[k].path : k \in DOMAIN written}

DirOf(p) == SubSeq(p, 1, Len(p) - 1)

\* entry k of the log is part Rank of its member, at that part's path, and
\* the file there is that member's conversion
IsPartOfItsMember(k) ==
    LET w == written[k]
    IN  /\ Matches(w.member, w.ds)
        /\ w.part_number = Rank(w.member, w.ds)
        /\ w.path = ExpectedPath(w.ds, w.part_number)
        /\ w.path \in DOMAIN files
        /\ files[w.path] = Converted(w.member, w.ds)

\* C1: after a successful run each dataset has exactly the parts 0..N-1
\* written once each, N its number of matching members, and part k is the
\* conversion of the k-th matching member of the listing
PartsDenseAndInOrder ==
    pc = "done" =>
        \A d \in DOMAIN Datasets :
            /\ Cardinality(WrittenBy(d)) = NumMatching(d)
            /\ {written[k].path : k \in WrittenBy(d)} = ExpectedPaths(d)
            /\ \A k \in WrittenBy(d) : IsPartOfItsMember(k)

PartsDenseAndInOrderWitness ==
    /\ pc = "done"
    /\ NumMatching(1) = 2
    /\ Cardinality(WrittenBy(1)) = 2
    /\ files[ExpectedPath(1, 0)] # files[ExpectedPath(1, 1)]

\* the streams yielded so far are the first matching members, in listing
\* order, each with its own member's bytes
YieldedInOrder ==
    \A k \in DOMAIN yielded :
        /\ Matches(yielded[k].member, ds)
        /\ Rank(yielded[k].member, ds) = k - 1
        /\ yielded[k].bytes = archive.members[yielded[k].member].bytes

\* C2: open_files yields one stream per matching member and no other, in
\* listing order, each delivering its member's bytes; with no matching
\* member it ends without an error
OpenFilesYieldsMatching ==
    /\ YieldedInOrder
    /\ pc = "returned" => Len(yielded) = NumMatching(ds) /\ raised = "nothing"

OpenFilesYieldsMatchingWitness ==
    /\ pc = "returned"
    /\ Len(yielded) = 2
    /\ Len(archive.members) = 2
    /\ archive.members[1].filename = archive.members[2].filename
    /\ archive.members[1].bytes # archive.members[2].bytes

\* the declared types csv_to_parquet was given
Declared == IF column_types = None THEN EmptyDict ELSE CHOOSE d \in column_types : TRUE

FilesAreStartPlusWritten ==
    /\ DOMAIN files = DOMAIN files0 \cup WrittenPaths
    /\ \A p \in DOMAIN files0 \ WrittenPaths : files[p] = files0[p]
    /\ \A k \in DOMAIN written : IsPartOfItsMember(k)

NoDuplicates(seq) == \A i, j \in DOMAIN seq : seq[i] = seq[j] => i = j

ProgressLinesFollowParts ==
    /\ Len(stdout) <= Len(written)
    /\ Len(written) <= Len(stdout) + 1
    /\ Len(written) = Len(stdout) + 1 <=> pc = "print"
    /\ \A i \in DOMAIN stdout :
         stdout[i] = <<"Written", ExpectedPath(written[i].ds, written[i].part_number)>>
    /\ \A i, j \in DOMAIN written :
         i < j => \/ written[i].ds < written[j].ds
                  \/ /\ written[i].ds = written[j].ds
                     /\ written[i].part_number < written[j].part_number

ProgressLinesFollowPartsWitness ==
    /\ pc = "done"
    /\ Len(stdout) = 2
    /\ written[1].ds = 1
    /\ written[2].ds = 2

\* C6: with a file that cannot be opened as an archive no member is yielded,
\* no part is written and no line is printed, and the first resumption of
\* the generator ends the run
ArchiveOpenFailureWritesNothing ==
    ~archive.valid =>
        /\ yielded = <<>>
        /\ written = <<>>
        /\ stdout = <<>>
        /\ files = files0
        /\ ds = 1
        /\ pc \in {"makedirs", "next", "failed"}
        /\ pc = "next" => gen_state = "created"
        /\ pc = "failed" => raised = "open"

ArchiveOpenFailureWitness ==
    /\ ~archive.valid
    /\ pc = "failed"
    /\ raised = "open"
    /\ run = 2
    /\ DOMAIN files # {}

\* C7: a second run on the archive of the run before ends with the files
\* and directories the first left, and never adds a path
RerunLeavesSameFiles ==
    rerun =>
        /\ DOMAIN files = DOMAIN files0
        /\ pc \in {"done", "failed"} => files = files0 /\ dirs = dirs0

RerunLeavesSameFilesWitness ==
    /\ rerun
    /\ pc = "done"
    /\ Len(written) = 2
    /\ files = files0

\* the progress lines of the dataset in progress
PrintedFor(d) == Cardinality({i \in DOMAIN stdout : written[i].ds = d})

\* C8: a member's stream is opened only when every stream opened before it
\* has been read, written and reported: one stream at most is at hand
MembersOneAtATime ==
    /\ Len(streams) <= 1
    /\ Len(yielded) <= PrintedFor(ds) + 1
    /\ pc \in {"next", "returned"} => streams = <<>> /\ Len(yielded) = PrintedFor(ds)

MembersOneAtATimeWitness ==
    /\ pc = "read"
    /\ Len(yielded) = 2
    /\ PrintedFor(ds) = 1

StaleParts(d) ==
    {p \in DOMAIN files0 : DirOf(p) = Datasets[d].output_path /\ p \notin ExpectedPaths(d)}

\* C10: a run creates or overwrites only the parts 0..N-1 of its datasets'
\* directories; every other file stays as it was, so a part of index N or
\* more left by an earlier run is still there at the end, and the directory
\* then holds more parts than the archive has shards
OnlyOwnPartsTouched ==
    /\ \A p \in DOMAIN files0 :
         p \in DOMAIN files /\ (p \notin WrittenPaths => files[p] = files0[p])
    /\ DOMAIN files \ DOMAIN files0 \subseteq WrittenPaths
    /\ archive.valid =>
         \A k \in DOMAIN written : written[k].path \in ExpectedPaths(written[k].ds)
    /\ pc = "done" =>
         \A d \in DOMAIN Datasets :
             StaleParts(d) # {} =>
                 /\ \A p \in StaleParts(d) : files[p] = files0[p]
                 /\ Cardinality({p \in DOMAIN files : DirOf(p) = Datasets[d].output_path})
                      > NumMatching(d)

OnlyOwnPartsTouchedWitness ==
    /\ pc = "done"
    /\ NumMatching(1) = 1
    /\ Cardinality(WrittenBy(1)) = 1
    /\ ExpectedPath(1, 1) \in StaleParts(1)
    /\ files[ExpectedPath(1, 0)] # files0[ExpectedPath(1, 0)]

=============================================================================
